---- MODULE Spec2Model ----
(***************************************************************************)
(* Petfinder scraper server: the resumable crawl controller                *)
(* (server.py scraping_loop), the record store (pets.csv, written by       *)
(* pet_scraper.py save_pet_to_csv and by server.py verify_all_pets), the   *)
(* checkpoint (scraping_progress.json) and the dedup cache.                *)
(*                                                                         *)
(* Links are numbered 1..NumLinks; 0 stands for Python's None where a link *)
(* is expected.  A CSV cell is a sequence of text tokens, so that the      *)
(* line-break escaping of about_me is a real rewrite of the text.          *)
(* Wall-clock time is abstracted: whether the dedup cache is CACHE_TTL old  *)
(* is chosen where the cache is read, and whether RESTART_INTERVAL has     *)
(* elapsed is chosen when a startup verification returns, the only path to *)
(* the check of line 563 that does not reset loop_start_time first.        *)
(***************************************************************************)
EXTENDS Integers, Sequences, FiniteSets, TLC

\* ---------------------------------------------------------------- bounds
\* Last page of a harvest pass (10000 in server.py:587), scaled down.
MaxPage == 2
\* Number of distinct pet links the upstream site can show.
NumLinks == 2
\* Longest candidate list the page lister returns.
MaxLinks == 2
\* Largest number of rows the store is allowed to grow to.
MaxRows == 2

\* ------------------------------------------------------ program constants
max_retries == 3
FailThreshold == 3
total_fields == 15

Links == 1..NumLinks
NoLink == 0

PET_CSV == "pets.csv"

\* ------------------------------------------------------------ python values
\* A value of the pet_data dict: a str, a bool or None.
PyStr(s) == [kind |-> "str", s |-> s, b |-> FALSE]
PyBool(b) == [kind |-> "bool", s |-> <<>>, b |-> b]
PyNone == [kind |-> "none", s |-> <<>>, b |-> FALSE]

\* Column order of pets.csv, restricted to one column of each kind of value:
\* the key, a plain string, a boolean flag and the free text.
get_pet_csv_fields == <<"link", "name", "vaccinated", "about_me">>

RECURSIVE ReplaceTok(_, _, _)
\* str.replace(old, new) on a text of tokens.
ReplaceTok(text, old, new) ==
  IF text = <<>> THEN <<>>
  ELSE <<(IF Head(text) = old THEN new ELSE Head(text))>>
         \o ReplaceTok(Tail(text), old, new)

\* pet_data["about_me"].replace("\n", "\\n").replace("\r", "\\n")
EscapeAboutMe(text) == ReplaceTok(ReplaceTok(text, "LF", "\\n"), "CR", "\\n")

\* The cell written for a value: "True"/"False" for a bool, "" for None,
\* str(val) otherwise.
CellOf(val) ==
  IF val.kind = "bool" THEN (IF val.b THEN <<"True">> ELSE <<"False">>)
  ELSE IF val.kind = "none" THEN <<>>
  ELSE val.s

\* pet_data after the about_me rewrite at the top of save_pet_to_csv.
NormalizePetData(pet_data) ==
  IF "about_me" \in DOMAIN pet_data /\ pet_data["about_me"].kind = "str"
       /\ pet_data["about_me"].s # <<>>
  THEN [pet_data EXCEPT !["about_me"] = PyStr(EscapeAboutMe(pet_data["about_me"].s))]
  ELSE pet_data

\* pet_data.get("link", "").strip(): links carry no surrounding white space.
PetLinkOf(pet_data) ==
  IF "link" \in DOMAIN pet_data THEN pet_data["link"] ELSE NoLink

FieldSet == {get_pet_csv_fields[i] : i \in 1..Len(get_pet_csv_fields)}

\* The row built for a key that is not in the file yet: every column "",
\* then the columns present in pet_data.
NewRow(pet_data) ==
  [col \in FieldSet |->
     IF col = "link" THEN PetLinkOf(pet_data)
     ELSE IF col \in DOMAIN pet_data THEN CellOf(pet_data[col]) ELSE <<>>]

\* A faulty variant of UpdatedRow: a column of pet_data overwrites only when
\* its value is not empty, and the columns pet_data lacks are left blank.
UpdatedRow_truthy(r, pet_data) ==
  [col \in FieldSet |->
     IF col = "link" THEN (IF "link" \in DOMAIN pet_data THEN pet_data["link"] ELSE r.link)
     ELSE IF col \in DOMAIN pet_data /\ CellOf(pet_data[col]) # <<>>
     THEN CellOf(pet_data[col])
     ELSE IF col \in DOMAIN pet_data THEN r[col] ELSE <<>>]

\* The row written for an existing row r with the same key: the columns of
\* pet_data overwrite, the others keep r's value.
UpdatedRow(r, pet_data) ==
  [col \in FieldSet |->
     IF col = "link" THEN (IF "link" \in DOMAIN pet_data THEN pet_data["link"] ELSE r.link)
     ELSE IF col \in DOMAIN pet_data THEN CellOf(pet_data[col]) ELSE r[col]]

RowLinks(rows) == {rows[i].link : i \in 1..Len(rows)}

\* A faulty variant of MergeRows: always appends, never updates in place.
MergeRows_append(rows, pet_data) == Append(rows, NewRow(NormalizePetData(pet_data)))

\* A faulty variant of MergeRows: only the row of pet_data's key is written.
MergeRows_only(rows, pet_data) ==
  LET data == NormalizePetData(pet_data)
      old == SelectSeq(rows, LAMBDA r : r.link = PetLinkOf(data))
  IN <<IF old = <<>> THEN NewRow(data) ELSE UpdatedRow(old[1], data)>>

\* A faulty variant of MergeRows: the updated row is written after the
\* other rows.
MergeRows_last(rows, pet_data) ==
  LET data == NormalizePetData(pet_data)
      k == PetLinkOf(data)
      others == SelectSeq(rows, LAMBDA r : r.link # k)
      old == SelectSeq(rows, LAMBDA r : r.link = k)
  IN Append(others, IF old = <<>> THEN NewRow(data) ELSE UpdatedRow(old[1], data))

\* The rows save_pet_to_csv writes: every row of the file in order, the one
\* with pet_data's key updated, a new row appended when no row had the key.
MergeRows(rows, pet_data) ==
  LET data == NormalizePetData(pet_data)
      k == PetLinkOf(data)
      merged == [i \in 1..Len(rows) |->
                   IF rows[i].link = k THEN UpdatedRow(rows[i], data) ELSE rows[i]]
  IN IF k \in RowLinks(rows) THEN merged ELSE Append(merged, NewRow(data))

\* ------------------------------------------------------------------ files
NoTable == [exists |-> FALSE, rows |-> <<>>, torn |-> FALSE]
Table(rows) == [exists |-> TRUE, rows |-> rows, torn |-> FALSE]
\* A file whose writer was killed or failed before the write was complete:
\* it holds some part of what was being written.
Torn == [exists |-> TRUE, rows |-> <<>>, torn |-> TRUE]

\* A faulty variant of TmpFile: the rewrite goes straight to the file itself.
TmpFile_inplace(path) == path

\* tmp = csv_path + ".tmp"
TmpFile(path) == "pets.csv.tmp"

Paths == {PET_CSV, TmpFile(PET_CSV)}

NoProgress == [state |-> "none", mode |-> "", page |-> 0, pet_type |-> "",
               verification_link |-> NoLink]
CorruptProgress == [NoProgress EXCEPT !.state = "corrupt"]

\* A faulty variant of ProgressDoc: the page after the one given is recorded.
ProgressDoc_ahead(page, pet_type, m, link) ==
  IF m = "scraping"
  THEN [state |-> "ok", mode |-> m, page |-> page + 1, pet_type |-> pet_type,
        verification_link |-> NoLink]
  ELSE [state |-> "ok", mode |-> m, page |-> 0, pet_type |-> "",
        verification_link |-> link]

\* A faulty variant of ProgressDoc: the link being verified is not stored.
ProgressDoc_nolink(page, pet_type, m, link) ==
  IF m = "scraping"
  THEN [state |-> "ok", mode |-> m, page |-> page, pet_type |-> pet_type,
        verification_link |-> NoLink]
  ELSE [state |-> "ok", mode |-> m, page |-> 0, pet_type |-> "",
        verification_link |-> NoLink]

\* The progress document json.dump writes.
ProgressDoc(page, pet_type, m, link) ==
  IF m = "scraping"
  THEN [state |-> "ok", mode |-> m, page |-> page, pet_type |-> pet_type,
        verification_link |-> NoLink]
  ELSE [state |-> "ok", mode |-> m, page |-> 0, pet_type |-> "",
        verification_link |-> link]

\* A faulty variant of load_progress: the saved position is ignored.
load_progress_default(pf) ==
  [mode |-> "scraping", page |-> 1, pet_type |-> "dog", verification_link |-> NoLink]

\* A faulty variant of load_progress: the stored page and category are
\* returned as they are.
load_progress_unchecked(pf) ==
  IF pf.state # "ok"
  THEN [mode |-> "scraping", page |-> 1, pet_type |-> "dog", verification_link |-> NoLink]
  ELSE IF pf.mode = "verification"
  THEN [mode |-> "verification", page |-> 0, pet_type |-> "",
        verification_link |-> pf.verification_link]
  ELSE [mode |-> "scraping", page |-> pf.page, pet_type |-> pf.pet_type,
        verification_link |-> NoLink]

\* (mode, page, pet_type, verification_link); page 0 and pet_type "" are None.
load_progress(pf) ==
  IF pf.state # "ok"
  THEN [mode |-> "scraping", page |-> 1, pet_type |-> "dog", verification_link |-> NoLink]
  ELSE IF pf.mode = "verification"
  THEN [mode |-> "verification", page |-> 0, pet_type |-> "",
        verification_link |-> pf.verification_link]
  ELSE [mode |-> "scraping",
        page |-> IF pf.page < 1 \/ pf.page > MaxPage THEN 1 ELSE pf.page,
        pet_type |-> IF pf.pet_type \in {"dog", "cat"} THEN pf.pet_type ELSE "dog",
        verification_link |-> NoLink]

\* os.replace(src, dst) on the two table files.
Replace(fs, src, dst) ==
  IF src = dst THEN fs
  ELSE [p \in DOMAIN fs |-> IF p = dst THEN fs[src] ELSE IF p = src THEN NoTable ELSE fs[p]]

\* ------------------------------------------------------------ dedup cache
NoCache == [valid |-> FALSE, links |-> {}]
NoLookup == [called |-> FALSE, age |-> 0, force |-> FALSE, before |-> NoCache, keys |-> {}]

CACHE_TTL == 300

\* A faulty variant of Expired: a cache of exactly CACHE_TTL seconds is kept.
Expired_late(age) == age > CACHE_TTL

\* Line 199: a cache is returned only if time.time() - _existing_links_cache_time
\* < CACHE_TTL.
Expired(age) == ~(age < CACHE_TTL)

\* The set of links read from pets.csv.
ReadLinks(fs) == IF fs[PET_CSV].exists THEN RowLinks(fs[PET_CSV].rows) ELSE {}

\* A faulty variant of get_existing_links: a cached set is returned whatever its age,
\* and a missing cache yields the empty set without reading the file.
get_existing_links_noread(c, stale, fs, force_refresh) ==
  [valid |-> TRUE, links |-> c.links]

\* A faulty variant of get_existing_links: force_refresh is ignored.
get_existing_links_unforced(c, stale, fs, force_refresh) ==
  IF c.valid /\ ~stale THEN c
  ELSE [valid |-> TRUE, links |-> ReadLinks(fs)]

\* The cache after get_existing_links(force_refresh): kept when present,
\* unforced and younger than CACHE_TTL, rebuilt from pets.csv otherwise.
get_existing_links(c, stale, fs, force_refresh) ==
  IF ~force_refresh /\ c.valid /\ ~stale THEN c
  ELSE [valid |-> TRUE, links |-> ReadLinks(fs)]

\* --------------------------------------------------------- external world
\* Candidate lists the page lister can return.
LinkLists == UNION {[1..n -> Links] : n \in 0..MaxLinks}

\* Records _scrape_pet_page can return for a link: every field is present.
\* The page of link 1 is seen in two versions, the others in one.
FetchedData(k) ==
  { [col \in FieldSet |->
       IF col = "link" THEN k
       ELSE IF col = "name" THEN PyStr(IF full THEN <<"x">> ELSE <<>>)
       ELSE IF col = "vaccinated" THEN PyBool(full)
       ELSE PyStr(IF full THEN <<"a", "LF", "b">> ELSE <<>>)] : full \in (IF k = 1 THEN BOOLEAN ELSE {TRUE}) }

\* Parameters of def scrape_pet(pet_link: str).
ScrapePetParams == {"pet_link"}

\* Whether the call scrape_pet(link, pet_type=pet_type) of server.py binds
\* to that signature; when it does not, the call raises TypeError.
ScrapePetCallBinds == {"pet_type"} \subseteq ScrapePetParams

\* What scrape_pet_data_only can do: raise, or report how many of the
\* expected fields failed to be read.
ValidatorOutcomes ==
  {[raised |-> TRUE, fields_failed |-> 0]}
    \cup {[raised |-> FALSE, fields_failed |-> n] : n \in 0..total_fields}

\* A faulty variant of verify_link: the threshold comparison is strict.
verify_link_strict(outcome) ==
  IF outcome.raised THEN FALSE ELSE ~(outcome.fields_failed > FailThreshold)

\* verify_link: False when 3 or more fields failed or the scrape raised.
verify_link(outcome) ==
  IF outcome.raised THEN FALSE ELSE ~(outcome.fields_failed >= FailThreshold)

\* ------------------------------------------------------------------ state
VARIABLES
  files,              \* pets.csv and pets.csv.tmp on disk
  progress_file,      \* scraping_progress.json on disk
  pc,                 \* where the controller thread is; "down": no server process
  running,            \* server_status["running"]
  total_pets_scraped, \* server_status["total_pets_scraped"]
  cache,              \* _existing_links_cache
  restart_due,        \* time.time() - loop_start_time >= RESTART_INTERVAL
  mode, start_page, start_pet_type,                     \* locals of scraping_loop
  page, types, pet_type,                                \* the two for loops
  attempt, links, new_pets_count,                       \* locals of scrape_pets_from_page
  vctx,               \* which call of verify_all_pets is running: "startup" or "cycle"
  resume_from_link, start_verifying, all_rows, removed_count, vi, \* locals of verify_all_pets
  cli,                \* a run of python pet_scraper.py <pet_url>
  \* history variables, written but never read by the program
  pass_from,          \* the checkpoint the current harvest pass was loaded with
  first_call,         \* the first (page, pet_type) the page lister was called for in this pass
  lowest_call,        \* the earliest (page, pet_type) it was called for in this pass
  last_scan,          \* the latest (page, pet_type) it was called for in this pass
  ckpt_by,            \* what wrote the scraping checkpoint on disk: "scan" (line 615),
                      \* "restart" (line 567), "" when there is none
  vsnap,              \* the rows of pets.csv as opened by the current verification pass
  verdicts,           \* (link, kept) of each validator call of this pass
  last_outcome,       \* what the validator reported in the latest call of this pass
  last_upsert,        \* per link, the pet_data of the latest completed upsert
  rewrite_base,       \* pets.csv as it was when the rewrite in progress began
  last_merge,         \* what the latest upsert did to the row of its key: "insert",
                      \* "update" (the row changed) or "same"; "" once the server starts
  expected_new,       \* distinct candidates of this scan that the dedup cache did not know
  harvest_done,       \* the page loop since the last reset_progress ran to its end
  last_reset,         \* the circumstances of the latest reset_progress
  stop_at,            \* the phase the loop was in when /stop was last requested
  late_calls,         \* external calls begun after a stop requested during harvesting
  errors_in_row,      \* errors caught by scraping_loop (lines 548 and 649) since the
                      \* latest page-lister call, validator call or stop request of
                      \* this run, counted up to 2
  \* the scraping_loop threads of the process, for the thread-level view
  loops,              \* per thread: "none", "deps" (lines 509-524), "loop" (527-661), "done"
  last_reply,         \* the answer to the latest request to an endpoint
  last_key,           \* the key parameter of that request, "" when it had none
  last_auth,          \* its X-API-Key header, "" when it had none, and what the key
                      \* file held when the request was handled, "" when unreadable
  export,             \* a GET /pets or GET /pets.csv that has opened pets.csv
  lookup              \* the latest call of get_existing_links looked at on its own:
                      \* the cache it found, its age in seconds, force_refresh and
                      \* the keys pets.csv held

diskVars == <<files, progress_file>>
procVars == <<running, total_pets_scraped, cache, restart_due>>
loopVars == <<mode, start_page, start_pet_type, page, types, pet_type>>
scanVars == <<attempt, links, new_pets_count>>
verVars == <<vctx, resume_from_link, start_verifying, all_rows, removed_count, vi>>
passHist == <<pass_from, first_call, lowest_call, last_scan>>
verHist == <<vsnap, verdicts, last_outcome>>
scanHist == <<expected_new>>
stopHist == <<stop_at, late_calls>>
resetHist == <<ckpt_by, harvest_done, last_reset>>
storeHist == <<last_upsert, rewrite_base, last_merge>>
hist == <<passHist, verHist, scanHist, stopHist, resetHist, storeHist>>
reqVars == <<last_reply, last_key, last_auth, export>>
auxVars == <<loops, reqVars, lookup>>
vars == <<diskVars, pc, procVars, loopVars, scanVars, verVars, cli, hist, errors_in_row,
          auxVars>>
\* Everything but the running flag, the threads and the requests.
ctlVars == <<lookup, diskVars, pc, total_pets_scraped, cache, restart_due, loopVars, scanVars,
             verVars, cli, hist, errors_in_row>>

\* Largest number of scraping_loop threads followed in the thread-level view.
MaxThreads == 3
Threads == 1..MaxThreads
NoLoops == [t \in Threads |-> "none"]

\* For the history variables: one more error caught by scraping_loop.
Escaped(n) == IF n < 2 THEN n + 1 ELSE n

NoPos == <<0, "">>
NoPass == [pos |-> NoPos, completed |-> FALSE]

\* (page, pet_type) order of a harvest pass: by page, "dog" before "cat".
PosBefore(a, b) == a[1] < b[1] \/ (a[1] = b[1] /\ a[2] = "dog" /\ b[2] = "cat")
NoReset == [happened |-> FALSE, harvest_complete |-> FALSE, verify_ok |-> FALSE]
NoBase == [active |-> FALSE, table |-> NoTable]
NoOutcome == [raised |-> FALSE, fields_failed |-> 0, set |-> FALSE]
NoData == [col \in {"link"} |-> NoLink]
CliIdle == [stage |-> "idle", rows |-> <<>>, data |-> NoData]
NoExport == [stage |-> "idle", endpoint |-> "", table |-> NoTable]
NoAuth == [header |-> "", stored |-> ""]
NoRequests == last_reply = "" /\ last_key = "" /\ last_auth = NoAuth /\ export = NoExport

HarvestPcs == {"for_page", "for_type", "lister", "items", "save_scan"}
VerifyPcs == {"verify_begin", "v_next", "v_check", "v_write", "v_replace"}

\* The volatile state of a server process that has just been started.
FreshProcess ==
  /\ running' = FALSE
  /\ total_pets_scraped' = 0
  /\ cache' = NoCache
  /\ restart_due' = FALSE
  /\ mode' = "scraping" /\ start_page' = 1 /\ start_pet_type' = "dog"
  /\ page' = 1 /\ types' = <<>> /\ pet_type' = "dog"
  /\ attempt' = 0 /\ links' = <<>> /\ new_pets_count' = 0
  /\ vctx' = "cycle" /\ resume_from_link' = NoLink /\ start_verifying' = FALSE
  /\ all_rows' = <<>> /\ removed_count' = 0 /\ vi' = 1

\* The volatile state and the history variables before anything has run.
InitRest ==
  /\ running = FALSE /\ total_pets_scraped = 0
  /\ cache = NoCache /\ restart_due = FALSE
  /\ mode = "scraping" /\ start_page = 1 /\ start_pet_type = "dog"
  /\ page = 1 /\ types = <<>> /\ pet_type = "dog"
  /\ attempt = 0 /\ links = <<>> /\ new_pets_count = 0
  /\ vctx = "cycle" /\ resume_from_link = NoLink /\ start_verifying = FALSE
  /\ all_rows = <<>> /\ removed_count = 0 /\ vi = 1
  /\ cli = CliIdle
  /\ pass_from = NoPass /\ first_call = NoPos /\ lowest_call = NoPos
  /\ last_scan = NoPos
  /\ lookup = NoLookup
  /\ ckpt_by = ""
  /\ vsnap = <<>> /\ verdicts = <<>> /\ last_outcome = NoOutcome
  /\ last_upsert = [k \in Links |-> NoData]
  /\ rewrite_base = NoBase /\ last_merge = ""
  /\ expected_new = 0
  /\ harvest_done = FALSE /\ last_reset = NoReset
  /\ stop_at = "" /\ late_calls = {}
  /\ errors_in_row = 0

\* The state before the server is first started: nothing on disk.
InitMain ==
  /\ files = [p \in Paths |-> NoTable]
  /\ progress_file = NoProgress
  /\ pc = "down"
  /\ InitRest

Init ==
  /\ InitMain
  /\ loops = NoLoops /\ NoRequests

\* ------------------------------------------- python pet_scraper.py <pet_url>
\* For the history variables: what a completed upsert did to the table.
MergeKind(before, after) ==
  IF Len(after) > Len(before) THEN "insert"
  ELSE IF after # before THEN "update" ELSE "same"

\* Lines 363-418: save_pet_to_csv(data), called with data for link k, has
\* read the file and built the rows to write.
ReadAndMerge(k, data) ==
  /\ cli.stage = "idle"
  /\ k \in ReadLinks(files) \/ Len(files[PET_CSV].rows) < MaxRows
  /\ cli' = [stage |-> "write", rows |-> MergeRows(files[PET_CSV].rows, data), data |-> data]
  /\ rewrite_base' = [active |-> TRUE, table |-> files[PET_CSV]]
  /\ UNCHANGED <<diskVars, pc, procVars, loopVars, scanVars, verVars, passHist, verHist,
                 scanHist, stopHist, resetHist, last_upsert, last_merge>>
  /\ UNCHANGED <<errors_in_row, auxVars>>

\* scrape_pet(pet_url) fetched data for link k and calls save_pet_to_csv.
\* Run while the server process is down.
CliScrape(k, data) ==
  /\ pc = "down"
  /\ ReadAndMerge(k, data)

\* open(tmp, "w") ... writer.writerows(rows), flush, fsync.
CliWriteTmp ==
  /\ cli.stage = "write"
  /\ files' = [files EXCEPT ![TmpFile(PET_CSV)] = Table(cli.rows)]
  /\ cli' = [cli EXCEPT !.stage = "replace"]
  /\ UNCHANGED <<progress_file, pc, procVars, loopVars, scanVars, verVars, hist>>
  /\ UNCHANGED <<errors_in_row, auxVars>>

\* os.replace(tmp, csv_path).
CliReplace ==
  /\ cli.stage = "replace"
  /\ files' = Replace(files, TmpFile(PET_CSV), PET_CSV)
  /\ cli' = CliIdle
  /\ last_upsert' = [last_upsert EXCEPT ![PetLinkOf(cli.data)] = cli.data]
  /\ rewrite_base' = NoBase
  /\ last_merge' = MergeKind(files[PET_CSV].rows, files'[PET_CSV].rows)
  /\ UNCHANGED <<progress_file, pc, procVars, loopVars, scanVars, verVars, passHist, verHist,
                 scanHist, stopHist, resetHist>>
  /\ UNCHANGED <<errors_in_row, auxVars>>

\* The run is killed before os.replace: a temp file being written is left
\* incomplete.
CliKill ==
  /\ cli.stage # "idle"
  /\ \E t \in (IF cli.stage = "write"
               THEN {files[TmpFile(PET_CSV)], Torn}
               ELSE {files[TmpFile(PET_CSV)]}) :
       files' = [files EXCEPT ![TmpFile(PET_CSV)] = t]
  /\ cli' = CliIdle
  /\ UNCHANGED <<progress_file, pc, procVars, loopVars, scanVars, verVars, hist>>
  /\ UNCHANGED <<errors_in_row, auxVars>>

\* ------------------------------------------------------- process lifecycle
\* For the history variables: the checkpoint that is on disk when a harvest
\* pass is loaded, and whether it was written at the end of a scan.
LoadedPass(lp) ==
  /\ pass_from' = IF lp.mode = "scraping" /\ progress_file.state = "ok"
                       /\ progress_file.mode = "scraping"
                  THEN [pos |-> <<progress_file.page, progress_file.pet_type>>,
                        completed |-> ckpt_by = "scan"]
                  ELSE NoPass
  /\ first_call' = NoPos
  /\ lowest_call' = NoPos
  /\ last_scan' = NoPos

\* The server module is imported: start_scraping_thread starts scraping_loop.
Boot ==
  /\ pc = "down" /\ cli.stage = "idle"
  /\ pc' = "loop_start"
  /\ last_merge' = ""
  /\ UNCHANGED <<diskVars, procVars, loopVars, scanVars, verVars, cli, passHist, verHist,
                 scanHist, stopHist, resetHist, last_upsert, rewrite_base>>
  /\ UNCHANGED <<errors_in_row, auxVars>>

\* Whether the step the controller is about to take calls save_progress.
AboutToSave ==
  \/ pc = "save_scan"
  \/ pc = "while" /\ running /\ restart_due /\ mode = "scraping"
  \/ /\ pc = "v_next" /\ vi <= Len(vsnap)
     /\ start_verifying \/ vsnap[vi].link = resume_from_link

\* The document that call of save_progress is writing (lines 615, 567, 447).
BeingSaved ==
  IF pc = "save_scan" THEN ProgressDoc(page, pet_type, "scraping", NoLink)
  ELSE IF pc = "while" THEN ProgressDoc(start_page, start_pet_type, "scraping", NoLink)
  ELSE ProgressDoc(0, "", "verification", vsnap[vi].link)

\* The server process dies.  A progress file being written may be left
\* truncated, a temp file being written incomplete.
Crash ==
  /\ pc # "down"
  /\ pc' = "down"
  /\ progress_file' \in (IF AboutToSave THEN {progress_file, CorruptProgress}
                         ELSE {progress_file})
  /\ \E t \in (IF pc = "v_write"
               THEN {files[TmpFile(PET_CSV)], Torn}
               ELSE {files[TmpFile(PET_CSV)]}) :
       files' = [files EXCEPT ![TmpFile(PET_CSV)] = t]
  /\ FreshProcess
  /\ pass_from' = NoPass /\ first_call' = NoPos /\ lowest_call' = NoPos
                  /\ last_scan' = NoPos
  /\ ckpt_by' = IF progress_file' = progress_file THEN ckpt_by ELSE ""
  /\ vsnap' = <<>> /\ verdicts' = <<>> /\ last_outcome' = NoOutcome
  /\ expected_new' = 0
  /\ stop_at' = "" /\ late_calls' = {}
  /\ last_reset' = NoReset
  /\ UNCHANGED <<cli, harvest_done, storeHist>>
  /\ errors_in_row' = 0
  /\ UNCHANGED auxVars

\* POST /stop.
Stop ==
  /\ pc # "down" /\ running
  /\ running' = FALSE
  /\ stop_at' = IF pc \in HarvestPcs THEN "harvest"
                ELSE IF pc \in VerifyPcs THEN "verify" ELSE "other"
  /\ late_calls' = {}
  /\ UNCHANGED <<diskVars, pc, total_pets_scraped, cache, restart_due,
                 loopVars, scanVars, verVars, cli, passHist, verHist, scanHist,
                 resetHist, storeHist>>
  /\ errors_in_row' = 0
  /\ UNCHANGED auxVars

\* POST /start once the previous scraping_loop has returned.
Start ==
  /\ pc = "ended" /\ ~running
  /\ pc' = "loop_start"
  /\ UNCHANGED <<diskVars, procVars, loopVars, scanVars, verVars, cli, hist>>
  /\ UNCHANGED <<errors_in_row, auxVars>>

\* ------------------------------------------------------------ scraping_loop
\* Lines 526-557: set the running flag, load the checkpoint, and either enter
\* verify_all_pets(resume_from_link=verification_link) or go to the while loop.
LoopStart ==
  /\ pc = "loop_start"
  /\ LET lp == load_progress(progress_file) IN
       /\ running' = TRUE
       /\ restart_due' = FALSE
       /\ mode' = lp.mode /\ start_page' = lp.page /\ start_pet_type' = lp.pet_type
       /\ LoadedPass(lp)
       /\ IF lp.mode = "verification"
          THEN /\ pc' = "verify_begin"
               /\ vctx' = "startup"
               /\ resume_from_link' = lp.verification_link
          ELSE /\ pc' = "while"
               /\ vctx' = "cycle"
               /\ UNCHANGED resume_from_link
  /\ stop_at' = "" /\ late_calls' = {}
  /\ last_reset' = NoReset
  /\ UNCHANGED <<diskVars, total_pets_scraped, cache, page, types, pet_type,
                 scanVars, start_verifying, all_rows, removed_count, vi, cli, verHist,
                 scanHist, ckpt_by, harvest_done, storeHist>>
  /\ errors_in_row' = 0
  /\ UNCHANGED auxVars

\* Lines 559-587: the while test, the hourly restart check, and the start of
\* the page loop.  range(start_page, 10001) raises TypeError when start_page
\* is None, which the handler at line 649 catches.
WhileTop ==
  /\ pc = "while"
  /\ IF ~running
     THEN pc' = "ended" /\ UNCHANGED <<progress_file, page>>
     ELSE IF restart_due
     THEN /\ pc' = "ended"
          /\ progress_file' = IF mode = "scraping"
                              THEN ProgressDoc(start_page, start_pet_type, "scraping", NoLink)
                              ELSE progress_file
          /\ UNCHANGED page
     ELSE IF start_page = 0
     THEN pc' = "reload" /\ UNCHANGED <<progress_file, page>>
     ELSE pc' = "for_page" /\ page' = start_page /\ UNCHANGED progress_file
  /\ restart_due' = FALSE
  /\ last_reset' = NoReset
  /\ ckpt_by' = IF progress_file' = progress_file THEN ckpt_by ELSE "restart"
  /\ IF pc' = "for_page"
     THEN UNCHANGED passHist
     ELSE pass_from' = NoPass /\ first_call' = NoPos /\ lowest_call' = NoPos
                  /\ last_scan' = NoPos
  /\ UNCHANGED <<files, running, total_pets_scraped, cache, mode, start_page,
                 start_pet_type, types, pet_type, scanVars, verVars, cli, verHist,
                 scanHist, stopHist, harvest_done, storeHist>>
  /\ errors_in_row' = IF pc' = "reload" THEN Escaped(errors_in_row) ELSE errors_in_row
  /\ UNCHANGED auxVars

\* A faulty variant of PetTypesToScrape: both categories on every page.
PetTypesToScrape_all(pg, sp, spt) == <<"dog", "cat">>

\* Lines 594-604: the categories to scan on page pg.
PetTypesToScrape(pg, sp, spt) ==
  IF pg = sp /\ spt # ""
  THEN (IF spt = "dog" THEN <<"dog", "cat">> ELSE <<"cat">>)
  ELSE <<"dog", "cat">>

\* Lines 587-604 and 632-635: one test of the page loop.  When the range is
\* exhausted, or the running flag is found false, control reaches
\* verify_all_pets(resume_from_link=None).
ForPage ==
  /\ pc = "for_page"
  /\ IF page > MaxPage \/ ~running
     THEN /\ pc' = "verify_begin"
          /\ vctx' = "cycle"
          /\ resume_from_link' = NoLink
          /\ harvest_done' = (page > MaxPage)
          /\ page' = 1
          /\ pass_from' = NoPass /\ first_call' = NoPos /\ lowest_call' = NoPos
                  /\ last_scan' = NoPos
          /\ UNCHANGED types
     ELSE /\ pc' = "for_type"
          /\ types' = PetTypesToScrape(page, start_page, start_pet_type)
          /\ UNCHANGED <<vctx, resume_from_link, harvest_done, page, passHist>>
  /\ UNCHANGED <<diskVars, procVars, mode, start_page, start_pet_type,
                 pet_type, scanVars, start_verifying, all_rows, removed_count, vi,
                 cli, verHist, scanHist, stopHist, ckpt_by, last_reset, storeHist>>
  /\ UNCHANGED <<errors_in_row, auxVars>>

RefreshEvery == 50

\* A faulty variant of RangeNext: the page loop does not advance.
RangeNext_stuck(pg) == pg

\* Line 587: the value for page in range(start_page, 10001) takes after pg.
RangeNext(pg) == pg + 1

\* Lines 607-611 and 622-630: one test of the category loop; when it is
\* over, the end of the page loop's body.
ForType ==
  /\ pc = "for_type"
  /\ IF types = <<>> \/ ~running
     THEN /\ pc' = "for_page"
          /\ start_page' = IF page = start_page THEN 1 ELSE start_page
          /\ cache' = IF page % RefreshEvery = 0
                      THEN get_existing_links(cache, FALSE, files, TRUE) ELSE cache
          /\ page' = RangeNext(page)
          /\ types' = <<>>
          /\ UNCHANGED <<pet_type, attempt>>
     ELSE /\ pc' = "lister"
          /\ pet_type' = Head(types)
          /\ types' = Tail(types)
          /\ attempt' = 0
          /\ UNCHANGED <<start_page, cache, page>>
  /\ UNCHANGED <<diskVars, running, total_pets_scraped, restart_due, mode, start_pet_type,
                 links, new_pets_count, verVars, cli, hist>>
  /\ UNCHANGED <<errors_in_row, auxVars>>

\* ---------------------------------------------------- scrape_pets_from_page
\* A faulty variant of RetriesLeft: one more call than max_retries.
RetriesLeft_more(failed) == failed < max_retries

\* Line 330: after a failed call, whether another call is made, given the
\* number of calls that failed before it.
RetriesLeft(failed) == failed < max_retries - 1

\* Lines 325-346: one call of extract_links_from_html; attempt counts the
\* calls of this scan that failed.  A failure is retried until max_retries
\* calls were made, then raised to the handler at line 384, which returns 0;
\* an empty list returns 0; otherwise the dedup set is fetched (a cached set
\* may have outlived CACHE_TTL or not) and the item loop starts.
ListerCall ==
  /\ pc = "lister"
  /\ first_call' = IF first_call = NoPos THEN <<page, pet_type>> ELSE first_call
  /\ lowest_call' = IF lowest_call = NoPos \/ PosBefore(<<page, pet_type>>, lowest_call)
                    THEN <<page, pet_type>> ELSE lowest_call
  /\ last_scan' = <<page, pet_type>>
  /\ \/ /\ RetriesLeft(attempt)
        /\ attempt' = attempt + 1
        /\ UNCHANGED <<pc, links, cache, expected_new>>
     \/ /\ ~RetriesLeft(attempt)
        /\ pc' = "save_scan"
        /\ attempt' = attempt + 1
        /\ UNCHANGED <<links, cache, expected_new>>
     \/ \E found \in LinkLists :
          /\ attempt' = 0
          /\ IF found = <<>>
             THEN /\ pc' = "save_scan"
                  /\ UNCHANGED <<links, cache, expected_new>>
             ELSE /\ pc' = "items"
                  /\ links' = found
                  /\ \E stale \in (IF cache.valid THEN BOOLEAN ELSE {FALSE}) :
                       cache' = get_existing_links(cache, stale, files, FALSE)
                  /\ expected_new' =
                       Cardinality({found[i] : i \in 1..Len(found)} \ cache'.links)
  /\ UNCHANGED <<diskVars, running, total_pets_scraped, restart_due, loopVars,
                 new_pets_count, verVars, cli, pass_from, verHist,
                 stopHist, resetHist, storeHist>>
  /\ errors_in_row' = 0
  /\ UNCHANGED auxVars

\* A faulty variant of existing_links_add: the link joins the set before
\* scrape_pet is called, whatever the call does.
existing_links_add_early(c, link, returned) == [c EXCEPT !.links = @ \cup {link}]

\* Lines 358-359: existing_links.add(link) comes after scrape_pet(...), so
\* it runs only when that call returned; existing_links is the cached set
\* itself.
existing_links_add(c, link, returned) ==
  IF returned THEN [c EXCEPT !.links = @ \cup {link}] ELSE c

\* Lines 350-372: one candidate.  A known link is skipped.  Otherwise
\* scrape_pet(link, pet_type=pet_type) is called: when the call binds, the
\* record is fetched and upserted or the fetch raises; when it does not, the
\* TypeError is caught at line 370 like any failed fetch.
ScrapeItem ==
  /\ pc = "items" /\ links # <<>>
  /\ LET link == Head(links) IN
       /\ links' = Tail(links)
       /\ IF link \in cache.links
          THEN UNCHANGED <<files, cache, new_pets_count, total_pets_scraped,
                           last_upsert, last_merge>>
          ELSE \/ /\ ScrapePetCallBinds
                  /\ \E data \in FetchedData(link) :
                       /\ files' = [files EXCEPT ![PET_CSV] =
                                      Table(MergeRows(files[PET_CSV].rows, data))]
                       /\ last_upsert' = [last_upsert EXCEPT ![link] = data]
                       /\ last_merge' = MergeKind(files[PET_CSV].rows, files'[PET_CSV].rows)
                  /\ cache' = existing_links_add(cache, link, TRUE)
                  /\ new_pets_count' = new_pets_count + 1
                  /\ total_pets_scraped' = total_pets_scraped + 1
               \/ /\ cache' = existing_links_add(cache, link, FALSE)
                  /\ UNCHANGED <<files, new_pets_count, total_pets_scraped,
                                 last_upsert, last_merge>>
  /\ UNCHANGED <<progress_file, pc, running, restart_due, loopVars, attempt,
                 verVars, cli, passHist, verHist, scanHist, stopHist, resetHist,
                 rewrite_base>>
  /\ UNCHANGED <<errors_in_row, auxVars>>

\* Lines 374-382: the end of the item loop; the cache is rebuilt when the
\* scan added a record.
ScanEnd ==
  /\ pc = "items" /\ links = <<>>
  /\ pc' = "save_scan"
  /\ cache' = IF new_pets_count > 0
              THEN get_existing_links(cache, FALSE, files, TRUE) ELSE cache
  /\ UNCHANGED <<diskVars, running, total_pets_scraped, restart_due, loopVars, scanVars,
                 verVars, cli, hist>>
  /\ UNCHANGED <<errors_in_row, auxVars>>

\* Line 615: save_progress(page, pet_type, "scraping") after the scan.
SaveScan ==
  /\ pc = "save_scan"
  /\ pc' = "for_type"
  /\ progress_file' = ProgressDoc(page, pet_type, "scraping", NoLink)
  /\ ckpt_by' = "scan"
  /\ attempt' = 0 /\ links' = <<>> /\ new_pets_count' = 0
  /\ expected_new' = 0
  /\ UNCHANGED <<files, procVars, loopVars, verVars, cli, passHist, verHist,
                 stopHist, harvest_done, last_reset, storeHist>>
  /\ UNCHANGED <<errors_in_row, auxVars>>

\* ----------------------------------------------------------- verify_all_pets
\* reset_progress(), with what the history variables record about it.
ResetProgress(ok) ==
  /\ progress_file' = NoProgress
  /\ last_reset' = [happened |-> TRUE, harvest_complete |-> harvest_done, verify_ok |-> ok]
  /\ ckpt_by' = ""
  /\ harvest_done' = FALSE

\* The locals of verify_all_pets once it has returned or raised.
VerifyOver ==
  /\ resume_from_link' = NoLink /\ start_verifying' = FALSE
  /\ all_rows' = <<>> /\ removed_count' = 0 /\ vi' = 1
  /\ vsnap' = <<>> /\ verdicts' = <<>> /\ last_outcome' = NoOutcome

\* Lines 401-422: return 0 when there is no pets.csv; otherwise remove a
\* left-over temp file and open pets.csv.
VerifyBegin ==
  /\ pc = "verify_begin"
  /\ IF ~files[PET_CSV].exists
     THEN /\ pc' = "after_verify"
          /\ UNCHANGED <<files, start_verifying, all_rows, removed_count, vi, rewrite_base,
                         vsnap>>
     ELSE /\ pc' = "v_next"
          /\ files' = [files EXCEPT ![TmpFile(PET_CSV)] = NoTable]
          /\ vsnap' = files'[PET_CSV].rows
          /\ all_rows' = <<>>
          /\ removed_count' = 0
          /\ start_verifying' = (resume_from_link = NoLink)
          /\ vi' = 1
          /\ rewrite_base' = [active |-> TRUE, table |-> files[PET_CSV]]
  /\ UNCHANGED <<progress_file, procVars, loopVars, scanVars, vctx, resume_from_link, cli,
                 passHist, verdicts, last_outcome, scanHist, stopHist, resetHist,
                 last_upsert, last_merge>>
  /\ UNCHANGED <<errors_in_row, auxVars>>

\* A faulty variant of StartsAt: the resume link is ignored.
StartsAt_always(started, link, resume) == TRUE

\* A faulty variant of StartsAt: the resume link itself counts as already verified.
StartsAt_after(started, link, resume) == started

\* Lines 434-436: whether verification is on from this row.
StartsAt(started, link, resume) == started \/ link = resume

\* Lines 428-447 and 466: the next row of the reader.  A row before the
\* resume point is kept as it is; for any other row the checkpoint
\* (verification, link) is saved before verify_link is called.
VerifyNext ==
  /\ pc = "v_next"
  /\ IF vi > Len(vsnap)
     THEN /\ pc' = "v_write"
          /\ UNCHANGED <<progress_file, start_verifying, all_rows, vi, last_outcome>>
     ELSE IF StartsAt(start_verifying, vsnap[vi].link, resume_from_link)
     THEN /\ pc' = "v_check"
          /\ start_verifying' = TRUE
          /\ progress_file' = ProgressDoc(0, "", "verification", vsnap[vi].link)
          /\ last_outcome' = NoOutcome
          /\ UNCHANGED <<all_rows, vi>>
     ELSE /\ all_rows' = Append(all_rows, vsnap[vi])
          /\ vi' = vi + 1
          /\ UNCHANGED <<pc, progress_file, start_verifying, last_outcome>>
  /\ ckpt_by' = IF progress_file' = progress_file THEN ckpt_by ELSE ""
  /\ UNCHANGED <<files, procVars, loopVars, scanVars, vctx, resume_from_link, removed_count,
                 cli, passHist, vsnap, verdicts, scanHist, stopHist, harvest_done,
                 last_reset, storeHist>>
  /\ UNCHANGED <<errors_in_row, auxVars>>

\* Lines 449-464: verify_link(link) and what follows from its answer.
VerifyLink ==
  /\ pc = "v_check"
  /\ \E outcome \in ValidatorOutcomes :
       /\ last_outcome' = [raised |-> outcome.raised,
                           fields_failed |-> outcome.fields_failed, set |-> TRUE]
       /\ IF verify_link(outcome)
          THEN all_rows' = Append(all_rows, vsnap[vi]) /\ UNCHANGED removed_count
          ELSE removed_count' = removed_count + 1 /\ UNCHANGED all_rows
  /\ verdicts' = Append(verdicts, [link |-> vsnap[vi].link, kept |-> all_rows' # all_rows])
  /\ vi' = vi + 1
  /\ pc' = "v_next"
  /\ late_calls' = IF stop_at = "harvest" THEN late_calls \cup {"validator"} ELSE late_calls
  /\ UNCHANGED <<diskVars, procVars, loopVars, scanVars, vctx, resume_from_link,
                 start_verifying, cli, passHist, vsnap, scanHist, stop_at, resetHist,
                 storeHist>>
  /\ errors_in_row' = 0
  /\ UNCHANGED auxVars

\* Lines 467-472: the kept rows are written to the temp file.
VerifyWriteTmp ==
  /\ pc = "v_write"
  /\ pc' = "v_replace"
  /\ files' = [files EXCEPT ![TmpFile(PET_CSV)] = Table(all_rows)]
  /\ UNCHANGED <<progress_file, procVars, loopVars, scanVars, verVars, cli, hist>>
  /\ UNCHANGED <<errors_in_row, auxVars>>

\* Lines 475-490: os.replace, the forced cache rebuild, and the return.
VerifyReplace ==
  /\ pc = "v_replace"
  /\ pc' = "after_verify"
  /\ files' = Replace(files, TmpFile(PET_CSV), PET_CSV)
  /\ cache' = get_existing_links(cache, FALSE, files', TRUE)
  /\ rewrite_base' = NoBase
  /\ last_upsert' = [k \in Links |->
                       IF k \in ReadLinks(files') THEN last_upsert[k] ELSE NoData]
  /\ UNCHANGED <<progress_file, running, total_pets_scraped, restart_due, loopVars,
                 scanVars, verVars, cli, passHist, verHist, scanHist, stopHist, resetHist,
                 last_merge>>
  /\ UNCHANGED <<errors_in_row, auxVars>>

\* Lines 484-488: reading pets.csv or writing the temp file raises; the
\* exception is re-raised to the caller.
VerifyRaise ==
  /\ pc \in {"v_next", "v_write"}
  /\ pc' = "verify_failed"
  /\ files' = [files EXCEPT ![TmpFile(PET_CSV)] = IF pc = "v_write" THEN Torn ELSE @]
  /\ VerifyOver
  /\ UNCHANGED <<progress_file, procVars, loopVars, scanVars, vctx, cli, passHist,
                 scanHist, stopHist, resetHist, storeHist>>
  /\ UNCHANGED <<errors_in_row, auxVars>>

\* Lines 543-547 (startup) and 643-647 (cycle): verify_all_pets returned;
\* the checkpoint is reset and harvesting restarts at page 1.
AfterVerify ==
  /\ pc = "after_verify"
  /\ ResetProgress(TRUE)
  /\ VerifyOver
  /\ start_page' = 1 /\ start_pet_type' = "dog"
  /\ IF vctx = "startup"
     THEN pc' = "while" /\ mode' = "scraping" /\ restart_due' \in BOOLEAN
     ELSE pc' = "reload" /\ UNCHANGED <<mode, restart_due>>
  /\ UNCHANGED <<files, running, total_pets_scraped, cache, page, types, pet_type,
                 scanVars, vctx, cli, passHist, scanHist, stopHist, storeHist>>
  /\ UNCHANGED <<errors_in_row, auxVars>>

\* Lines 548-554 (startup): the error is caught, the checkpoint is reset and
\* harvesting restarts at page 1.  Lines 636-653 (cycle): the error reaches
\* the handler of the while loop, which sleeps and goes on to line 656.
HandleVerifyError ==
  /\ pc = "verify_failed"
  /\ IF vctx = "startup"
     THEN /\ ResetProgress(FALSE)
          /\ start_page' = 1 /\ start_pet_type' = "dog" /\ mode' = "scraping"
          /\ pc' = "while"
          /\ restart_due' \in BOOLEAN
     ELSE /\ pc' = "reload"
          /\ UNCHANGED <<progress_file, start_page, start_pet_type, mode, resetHist,
                         restart_due>>
  /\ UNCHANGED <<files, running, total_pets_scraped, cache, page, types, pet_type,
                 scanVars, verVars, cli, passHist, verHist, scanHist, stopHist, storeHist>>
  /\ errors_in_row' = Escaped(errors_in_row)
  /\ UNCHANGED auxVars

\* Lines 656-661: when still running, reset the restart clock and reload the
\* checkpoint; then back to the while test.
Reload ==
  /\ pc = "reload"
  /\ pc' = "while"
  /\ IF running
     THEN LET lp == load_progress(progress_file) IN
            /\ mode' = lp.mode /\ start_page' = lp.page /\ start_pet_type' = lp.pet_type
            /\ LoadedPass(lp)
     ELSE UNCHANGED <<mode, start_page, start_pet_type, passHist>>
  /\ last_reset' = NoReset
  /\ UNCHANGED <<diskVars, procVars, page, types, pet_type, scanVars, verVars, cli,
                 verHist, scanHist, stopHist, ckpt_by, harvest_done, storeHist>>
  /\ UNCHANGED <<errors_in_row, auxVars>>

Next ==
  \/ \E k \in Links : \E data \in FetchedData(k) : CliScrape(k, data)
  \/ CliWriteTmp \/ CliReplace \/ CliKill
  \/ Boot \/ Crash \/ Stop \/ Start
  \/ LoopStart \/ WhileTop \/ ForPage \/ ForType
  \/ ListerCall \/ ScrapeItem \/ ScanEnd \/ SaveScan
  \/ VerifyBegin \/ VerifyNext \/ VerifyLink \/ VerifyWriteTmp \/ VerifyReplace
  \/ VerifyRaise \/ AfterVerify \/ HandleVerifyError \/ Reload

Spec == Init /\ [][Next]_vars

\* ------------------------------------------------- load_progress on any file
\* What scraping_progress.json can hold when it was not written by this
\* version of save_progress: no file, an unreadable file, or a document with
\* any mode, any stored page (0 and MaxPage + 1 are out of range), any
\* category ("" when the key is absent) and any verification link.
StoredDocs ==
  {NoProgress, CorruptProgress}
    \cup {[state |-> "ok", mode |-> m, page |-> p, pet_type |-> c, verification_link |-> l] :
            m \in {"scraping", "verification", ""}, p \in 0..(MaxPage + 1),
            c \in {"dog", "cat", "bird", ""}, l \in {NoLink} \cup Links}

\* scraping_loop is about to load the checkpoint of line 536.
LoadInit ==
  /\ files = [p \in Paths |-> NoTable]
  /\ progress_file \in StoredDocs
  /\ pc = "loop_start"
  /\ InitRest
  /\ loops = NoLoops /\ NoRequests

LoadSpec == LoadInit /\ [][LoopStart]_vars

\* ------------------------------------------- save_pet_to_csv on any pet_data
\* The pet_data dicts save_pet_to_csv is called with: the key and any subset
\* of the other columns, a string (possibly empty) or None for the name, a
\* bool for the flag, a text with a line break or the empty text.
PetDataValues(col) ==
  IF col = "name" THEN {PyStr(<<"x">>), PyStr(<<>>), PyNone}
  ELSE IF col = "vaccinated" THEN {PyBool(TRUE), PyBool(FALSE)}
  ELSE {PyStr(<<"a", "LF", "b">>), PyStr(<<>>)}

Payloads ==
  { [col \in cols \cup {"link"} |->
       IF col = "link" THEN k
       ELSE IF col = "name" THEN n
       ELSE IF col = "vaccinated" THEN v ELSE a] :
    cols \in SUBSET (FieldSet \ {"link"}), k \in Links, n \in PetDataValues("name"),
    v \in PetDataValues("vaccinated"), a \in PetDataValues("about_me") }

\* A row of pets.csv written by an earlier upsert of link k, with every
\* column filled or with the text columns empty.
StoredRow(k, full) ==
  [col \in FieldSet |->
     IF col = "link" THEN k
     ELSE IF col = "name" THEN (IF full THEN <<"y">> ELSE <<>>)
     ELSE IF col = "vaccinated" THEN (IF full THEN <<"True">> ELSE <<"False">>)
     ELSE (IF full THEN <<"c", "\\n", "d">> ELSE <<>>)]

\* The tables pets.csv can hold: no file, or up to MaxRows rows with distinct
\* keys in any order.
Stores ==
  {NoTable} \cup
  UNION { {Table(rows) : rows \in
             {r \in [1..n -> {StoredRow(k, full) : k \in Links, full \in BOOLEAN}] :
                \A i, j \in 1..n : r[i].link = r[j].link => i = j}} : n \in 0..MaxRows }

\* Some table is on disk and no server process is running.
UpsertInit ==
  /\ \E t \in Stores : files = [p \in Paths |-> IF p = PET_CSV THEN t ELSE NoTable]
  /\ progress_file = NoProgress
  /\ pc = "down"
  /\ InitRest
  /\ loops = NoLoops /\ NoRequests

\* Lines 363-418: save_pet_to_csv(data) reads the file and builds the rows;
\* one call is followed to its end.
save_pet_to_csv(data) ==
  /\ last_merge = ""
  /\ CliScrape(PetLinkOf(data), data)

UpsertNext ==
  \/ \E data \in Payloads : save_pet_to_csv(data)
  \/ CliWriteTmp \/ CliReplace \/ CliKill

UpsertSpec == UpsertInit /\ [][UpsertNext]_vars

\* ------------------------------------------------------- the Flask endpoints
\* The content of scrapingkey.txt; "" when load_scraping_key raises (no
\* file, or an empty one).
SCRAPING_KEY == "secret"
StoredKeys == {SCRAPING_KEY, ""}

\* request.args.get("key") or request.headers.get("X-API-Key"): none, a
\* key that is not the stored one, the stored one.
Keys == {"", "guess", SCRAPING_KEY}

\* Lines 706-717: provided_key is request.args.get("key") or
\* request.headers.get("X-API-Key"), the header only when the parameter is
\* absent or empty; expected_key is "" when load_scraping_key raises.
verify_endpoint_key(key_arg, header, expected_key) ==
  LET provided_key == IF key_arg # "" THEN key_arg ELSE header IN
    IF provided_key = "" THEN FALSE
    ELSE IF expected_key = "" THEN FALSE
    ELSE provided_key = expected_key

\* The keys of the server_status dict, which GET /status returns.
server_status == {"running", "current_page", "current_pet_type", "total_pets_scraped",
                  "total_pets_verified", "total_pets_removed"}

ExportEndpoints == {"/pets", "/pets.csv"}

\* The file a writer is filling right now, if any: the temp file of an
\* upsert or of the verification rewrite between open(tmp, "w") and the end
\* of the write.
BeingWritten(path) ==
  (cli.stage = "write" \/ pc = "v_write") /\ path = TmpFile(PET_CSV)

\* What open(path) followed by a read can return: the file as it is, or an
\* incomplete table when the read overlaps a write to that file.
ReadNow(path) ==
  IF BeingWritten(path) THEN {files[path], Torn} ELSE {files[path]}

\* Lines 720-733 and 750-763: the key check, the os.path.exists test and the
\* open of pets.csv, for GET /pets and GET /pets.csv.
ExportBegin(ep, key, header, expected) ==
  /\ export.stage = "idle"
  /\ last_key' = key
  /\ last_auth' = [header |-> header, stored |-> expected]
  /\ IF ~verify_endpoint_key(key, header, expected)
     THEN last_reply' = "unauthorized" /\ UNCHANGED export
     ELSE IF ~files[PET_CSV].exists
     THEN last_reply' = "no data" /\ UNCHANGED export
     ELSE /\ last_reply' = "reading"
          /\ \E t \in ReadNow(PET_CSV) :
               export' = [stage |-> "open", endpoint |-> ep, table |-> t]
  /\ UNCHANGED <<running, loops, ctlVars>>

\* Lines 734-747 and 764-775: the rows (or the text) read are returned.
ExportEnd ==
  /\ export.stage = "open"
  /\ export' = [export EXCEPT !.stage = "idle"]
  /\ last_reply' = IF export.table.torn THEN "partial" ELSE "pets"
  /\ UNCHANGED <<running, loops, last_key, last_auth, ctlVars>>

\* python pet_scraper.py <pet_url> is run once beside a server process whose
\* scraping_loop has returned.
UpsertBeside(k, data) ==
  /\ pc = "ended" /\ last_merge = ""
  /\ ReadAndMerge(k, data)

\* A server process is up with some table on disk and the stop flag set
\* during the page loop: scraping_loop is about to run the verification that
\* follows the page loop, or has returned.
ExportInit ==
  /\ \E t \in Stores : files = [p \in Paths |-> IF p = PET_CSV THEN t ELSE NoTable]
  /\ progress_file = NoProgress
  /\ pc \in {"verify_begin", "ended"}
  /\ InitRest
  /\ loops = NoLoops /\ NoRequests

ExportNext ==
  \/ \E ep \in ExportEndpoints, key \in Keys, expected \in StoredKeys :
       ExportBegin(ep, key, "", expected)
  \/ ExportEnd
  \/ \E k \in Links : \E data \in FetchedData(k) : UpsertBeside(k, data)
  \/ CliWriteTmp \/ CliReplace \/ CliKill
  \/ VerifyBegin \/ VerifyNext \/ VerifyLink \/ VerifyWriteTmp \/ VerifyReplace
  \/ VerifyRaise

ExportSpec == ExportInit /\ [][ExportNext]_vars

\* ------------------------------------------- get_existing_links on its own
\* Ages of the cache at a call, in seconds, around CACHE_TTL.
Ages == {0, CACHE_TTL - 1, CACHE_TTL, CACHE_TTL + 1}

\* A server process is up with some table on disk and no cached set yet.
CacheInit ==
  /\ \E t \in Stores : files = [p \in Paths |-> IF p = PET_CSV THEN t ELSE NoTable]
  /\ progress_file = NoProgress
  /\ pc = "ended"
  /\ InitRest
  /\ loops = NoLoops /\ NoRequests

\* Lines 191-219: one call get_existing_links(force_refresh=force) made when
\* the cache, if there is one, is age seconds old.
Lookup(age, force) ==
  /\ cache' = get_existing_links(cache, Expired(age), files, force)
  /\ lookup' = [called |-> TRUE, age |-> age, force |-> force, before |-> cache,
                keys |-> ReadLinks(files)]
  /\ UNCHANGED <<diskVars, pc, running, total_pets_scraped, restart_due, loopVars,
                 scanVars, verVars, cli, hist, errors_in_row, loops, reqVars>>

\* Calls of get_existing_links, and runs of python pet_scraper.py <pet_url>
\* that write to pets.csv between them.
CacheNext ==
  \/ \E age \in Ages, force \in BOOLEAN : Lookup(age, force)
  \/ \E k \in Links : \E data \in FetchedData(k) : UpsertBeside(k, data)
  \/ CliWriteTmp \/ CliReplace

CacheSpec == CacheInit /\ [][CacheNext]_vars

\* ------------------------------------------------------- one harvest pass
\* scraping_loop is about to load a checkpoint that save_progress wrote
\* during a harvest pass, or none, with some table on disk.
HarvestInit ==
  /\ \E t \in Stores : files = [p \in Paths |-> IF p = PET_CSV THEN t ELSE NoTable]
  /\ progress_file \in {NoProgress} \cup
                        {ProgressDoc(p, c, "scraping", NoLink) :
                           p \in 1..MaxPage, c \in {"dog", "cat"}}
  /\ pc = "loop_start"
  /\ InitRest
  /\ loops = NoLoops /\ NoRequests

\* The steps of the scraping_loop thread up to the call of line 634.
HarvestStep ==
  \/ LoopStart \/ WhileTop \/ ForPage \/ ForType
  \/ ListerCall \/ ScrapeItem \/ ScanEnd \/ SaveScan

HarvestNext == HarvestStep \/ Stop

\* The thread keeps running: every external call returns or raises, and the
\* process is not killed.
HarvestSpec == HarvestInit /\ [][HarvestNext]_vars /\ WF_vars(HarvestStep)

\* ------------------------------------------------- the scraping_loop threads
\* The thread-level view of the process: which scraping_loop threads exist
\* and whether each is before line 527, inside the while loop, or has
\* returned.  What a thread does inside the loop is left to Spec.

\* start_scraping_thread (lines 781-790) has started the first thread.
ThreadInit ==
  /\ InitMain
  /\ loops = [NoLoops EXCEPT ![1] = "deps"] /\ NoRequests

\* Lines 688-696: POST /start tests the running flag and starts a thread,
\* whatever key the request carries.
StartRequest(key) ==
  /\ running \/ \E t \in Threads : loops[t] = "none"
  /\ IF running
     THEN last_reply' = "already running" /\ UNCHANGED loops
     ELSE /\ last_reply' = "started"
          /\ LET t == CHOOSE u \in Threads :
                        loops[u] = "none" /\ \A v \in 1..(u - 1) : loops[v] # "none"
             IN loops' = [loops EXCEPT ![t] = "deps"]
  /\ last_key' = key /\ last_auth' = NoAuth
  /\ UNCHANGED <<running, export, ctlVars>>

\* Lines 699-703: POST /stop clears the running flag, whatever key the
\* request carries.
StopRequest(key) ==
  /\ running
  /\ running' = FALSE
  /\ last_reply' = "stopped"
  /\ last_key' = key /\ last_auth' = NoAuth
  /\ UNCHANGED <<loops, export, ctlVars>>

\* Lines 682-685: GET /status returns the server_status dict, whatever key
\* the request carries.
StatusRequest(key) ==
  /\ last_reply' = "status"
  /\ last_key' = key /\ last_auth' = NoAuth
  /\ UNCHANGED <<running, loops, export, ctlVars>>

\* Lines 509-527: the wait for the dependencies is over; the thread sets the
\* running flag and goes on to the while loop.
ThreadBegin(t) ==
  /\ loops[t] = "deps"
  /\ loops' = [loops EXCEPT ![t] = "loop"]
  /\ running' = TRUE
  /\ UNCHANGED <<reqVars, ctlVars>>

\* Line 559: the while test finds the running flag false; scraping_loop returns.
ThreadWhileExit(t) ==
  /\ loops[t] = "loop" /\ ~running
  /\ loops' = [loops EXCEPT ![t] = "done"]
  /\ UNCHANGED <<running, reqVars, ctlVars>>

\* Lines 562-571: the restart interval has elapsed; break leaves the while
\* loop and scraping_loop returns.
ThreadRestartBreak(t) ==
  /\ loops[t] = "loop" /\ running
  /\ loops' = [loops EXCEPT ![t] = "done"]
  /\ UNCHANGED <<running, reqVars, ctlVars>>

ThreadNext ==
  \/ \E key \in Keys : StartRequest(key)
  \/ \E key \in Keys : StopRequest(key)
  \/ \E key \in Keys : StatusRequest(key)
  \/ \E ep \in ExportEndpoints, key \in Keys, header \in Keys, expected \in StoredKeys :
       ExportBegin(ep, key, header, expected)
  \/ \E t \in Threads : ThreadBegin(t)
  \/ \E t \in Threads : ThreadWhileExit(t)
  \/ \E t \in Threads : ThreadRestartBreak(t)

ThreadSpec == ThreadInit /\ [][ThreadNext]_vars

\* ------------------------------------------------------------------ claims
\* C1 - Harvest resume: in a harvest pass loaded with the persisted
\* checkpoint (scraping, p, c), the first page-lister call is for (p, c) and
\* no call is for a page before p, nor for "dog" of page p when c = "cat".
C1_HarvestResume ==
  pass_from.pos # NoPos =>
    /\ first_call \in {NoPos, pass_from.pos}
    /\ lowest_call = NoPos \/ ~PosBefore(lowest_call, pass_from.pos)

\* A pass loaded with (scraping, 2, cat) has made its first lister call.
C1_Witness ==
  /\ pass_from.pos = <<MaxPage, "cat">>
  /\ first_call = <<MaxPage, "cat">>
  /\ pc = "save_scan"

\* The index of the first row of rows whose key is k.
RowIndex(rows, k) == CHOOSE i \in 1..Len(rows) : rows[i].link = k /\ \A j \in 1..(i - 1) : rows[j].link # k

\* C2 - Verification resume: when verify_all_pets ran with a resume key K
\* that is in the store, every row before K is in the rewritten store,
\* unchanged and at its place, with no validator call made for it, and the
\* validator was called, in order, for K and for every row after K.
C2_VerificationResume ==
  (pc = "after_verify" /\ resume_from_link \in RowLinks(vsnap)) =>
    LET K == RowIndex(vsnap, resume_from_link)
        stored == files[PET_CSV].rows
    IN /\ \A i \in 1..(K - 1) :
            /\ i <= Len(stored) /\ stored[i] = vsnap[i]
            /\ \A j \in 1..Len(verdicts) : verdicts[j].link # vsnap[i].link
       /\ Len(verdicts) = Len(vsnap) - K + 1
       /\ \A j \in 1..Len(verdicts) : verdicts[j].link = vsnap[K + j - 1].link

\* A pass resumed at the second of two stored rows has rewritten the store.
C2_Witness ==
  /\ pc = "after_verify"
  /\ Len(vsnap) = 2
  /\ resume_from_link = vsnap[2].link
  /\ Len(verdicts) = 1
  /\ Len(files[PET_CSV].rows) >= 1

\* C3 as stated - Resume granularity: a pass loaded with a checkpoint
\* (scraping, p, c) that was saved at the end of the scan of (p, c) does not
\* call the page lister for (p, c) again.
C3_NoRescanOfCompleted ==
  pass_from.completed => (first_call # pass_from.pos /\ lowest_call # pass_from.pos)

\* C3 as amended - a pass loaded with a checkpoint (scraping, p, c) that was
\* saved at the end of the scan of (p, c) resumes at (p, c) itself: its first
\* page-lister call scans (p, c) once more, and none of its calls is for an
\* earlier page or category.
C3_ResumeAtCompleted ==
  (pass_from.completed /\ first_call # NoPos) =>
    (first_call = pass_from.pos /\ lowest_call = pass_from.pos)

\* After a crash, the pass loaded with the completed (1, cat) has listed it.
C3_Witness ==
  /\ pass_from.completed
  /\ pass_from.pos = <<1, "cat">>
  /\ first_call = <<1, "cat">>
  /\ pc = "for_type"

\* The text of a cell as the file is expected to hold it: line breaks of the
\* free text written as the two characters \n.
ExpectedText(col, text) ==
  [i \in 1..Len(text) |->
     IF col = "about_me" /\ text[i] \in {"LF", "CR"} THEN "\\n" ELSE text[i]]

\* The row the store is expected to hold after an upsert of pet_data that
\* has every column.
ExpectedRow(pet_data) ==
  [col \in FieldSet |->
     IF col = "link" THEN pet_data["link"]
     ELSE IF pet_data[col].kind = "bool"
     THEN (IF pet_data[col].b THEN <<"True">> ELSE <<"False">>)
     ELSE IF pet_data[col].kind = "none" THEN <<>>
     ELSE ExpectedText(col, pet_data[col].s)]

\* C4 - Idempotent merge: pets.csv holds exactly one row for every key that
\* was upserted and is still stored, no two rows share a key, and each row
\* carries the field values of the latest upsert of its key.
C4_IdempotentMerge ==
  LET stored == files[PET_CSV].rows IN
    /\ \A i, j \in 1..Len(stored) : stored[i].link = stored[j].link => i = j
    /\ \A k \in Links :
         last_upsert[k] # NoData =>
           \E i \in 1..Len(stored) : stored[i] = ExpectedRow(last_upsert[k])
    /\ \A i \in 1..Len(stored) : last_upsert[stored[i].link] # NoData

\* The latest upsert changed the row of link 1, the first of two stored
\* rows, which now carries the free text of that upsert with its line break
\* escaped.
C4_Witness ==
  /\ cli.stage = "idle" /\ last_merge = "update"
  /\ Len(files[PET_CSV].rows) = 2
  /\ files[PET_CSV].rows[1].link = 1
  /\ files[PET_CSV].rows[1].about_me = <<"a", "\\n", "b">>
  /\ last_upsert[1]["about_me"].s = <<"a", "LF", "b">>

\* C5 - Crash-safe rewrite: from the start of an upsert or of the
\* verification rewrite until its os.replace, and after the process was
\* killed in between, pets.csv holds the complete table it held when the
\* rewrite began.
C5_CrashSafeRewrite ==
  rewrite_base.active => files[PET_CSV] = rewrite_base.table

\* The process was killed after the temp file was fully written with a
\* table that differs from the one in pets.csv.
C5_Witness ==
  /\ pc = "down" /\ cli.stage = "idle"
  /\ rewrite_base.active
  /\ files[PET_CSV].exists
  /\ files[TmpFile(PET_CSV)].exists /\ ~files[TmpFile(PET_CSV)].torn
  /\ files[TmpFile(PET_CSV)].rows # files[PET_CSV].rows

C7_HarvestOfNewKeys ==
  pc = "save_scan" => new_pets_count = expected_new

\* C8 - Threshold boundary: a record for which the validator reported n
\* failed fields is kept by verify_all_pets if and only if n < 3, and the
\* rewritten store holds a validated record if and only if it was kept.
C8_ThresholdBoundary ==
  /\ (pc \in {"v_next", "v_write", "v_replace", "after_verify"}
        /\ last_outcome.set /\ ~last_outcome.raised) =>
       (verdicts[Len(verdicts)].kept <=> last_outcome.fields_failed < 3)
  /\ (pc = "after_verify" /\ vsnap # <<>>) =>
       \A j \in 1..Len(verdicts) :
         verdicts[j].kept <=> verdicts[j].link \in ReadLinks(files)

\* A pass whose last validator call reported 2 failed fields has rewritten
\* the store, and the record is in it.
C8_Witness ==
  /\ pc = "after_verify"
  /\ last_outcome.set /\ ~last_outcome.raised /\ last_outcome.fields_failed = 2
  /\ verdicts # <<>>
  /\ verdicts[Len(verdicts)].link \in ReadLinks(files)

\* C9 - The checkpoint is cleared only after a harvest pass that ran through
\* the last page, followed by a verification pass that finished without
\* error.
C9_ClearedOnlyAfterFullCycle ==
  last_reset.happened => (last_reset.harvest_complete /\ last_reset.verify_ok)

\* C10 - Cooperative stop: after a stop requested during harvesting, the loop
\* makes no further external call before it exits.
C10_CooperativeStop ==
  late_calls = {}

\* The scraping_loop threads that have been started and have not returned.
Executing == {t \in Threads : loops[t] \in {"deps", "loop"}}

\* C11 - At most one controller loop: at most one scraping_loop thread is
\* executing at any time, and a POST /start never leaves a second one
\* executing.
C11_AtMostOneLoop ==
  Cardinality(Executing) <= 1

\* C12 - Error recovery: after an error escaped a phase inside the while
\* loop, the loop resumes from the saved checkpoint and does not repeat the
\* error: unless a stop is requested, scraping_loop does not catch a second
\* error before the loop has made a page-lister or validator call.
C12_ErrorRecovery ==
  errors_in_row < 2

\* C13 - Periodic self-restart: finding the restart interval elapsed never
\* ends scraping_loop while the running flag is true: whenever the loop has
\* returned, the running flag is false.
C13_RestartKeepsRunning ==
  pc = "ended" => ~running

\* C14 - Full cycle liveness: absent stop requests and errors, the cycle of
\* harvesting, verification and clearing the checkpoint repeats without end:
\* scraping_loop never returns in a run in which no stop was requested and
\* no error was caught.
C14_CycleWithoutEnd ==
  pc = "ended" => (stop_at # "" \/ errors_in_row > 0)

\* The places of a run that started with a verification checkpoint where the
\* resumed verification pass is still going on or has just ended.
InStartupVerification ==
  vctx = "startup" /\ pc \in VerifyPcs \cup {"after_verify", "verify_failed"}

\* C15 - Startup in verification phase: in a run whose loaded checkpoint
\* names verification, no page-lister call is made before the verification
\* pass has completed or raised; the checkpoint is then cleared; and
\* harvesting begins at (1, dog): the first page-lister call is for (1, dog),
\* and the loop does not return, its running flag still true, without it.
C15_StartupVerification ==
  /\ InStartupVerification => first_call = NoPos
  /\ (vctx = "startup" /\ pc = "while") => progress_file = NoProgress
  /\ (vctx = "startup" /\ first_call # NoPos) => first_call = <<1, "dog">>
  /\ ~(vctx = "startup" /\ pc = "ended" /\ running)

\* What load_progress returned at line 536.
Loaded == <<mode, start_page, start_pet_type>>

\* The document is a scraping checkpoint whose stored page is out of range
\* or whose stored category is neither "dog" nor "cat".
BadField(pf) ==
  /\ pf.state = "ok" /\ pf.mode # "verification"
  /\ pf.page \notin 1..MaxPage \/ pf.pet_type \notin {"dog", "cat", ""}

\* C16 as stated - Checkpoint load default: load_progress returns exactly
\* (scraping, 1, dog) when there is no file, the file is unreadable, the
\* stored page is out of range or the stored category is not dog or cat.
C16_DefaultOnInvalid ==
  (pc # "loop_start" /\ (progress_file.state # "ok" \/ BadField(progress_file))) =>
    Loaded = <<"scraping", 1, "dog">>

\* C16 as amended - load_progress returns (scraping, 1, dog) when there is
\* no file or the file is unreadable; of a readable scraping checkpoint it
\* replaces each invalid field by its own default: an out-of-range page by 1,
\* the stored category kept, and an unknown or absent category by dog, the
\* stored page kept; a verification checkpoint is returned with its link.
C16_DefaultPerField ==
  pc # "loop_start" =>
    IF progress_file.state # "ok" THEN Loaded = <<"scraping", 1, "dog">>
    ELSE IF progress_file.mode = "verification"
    THEN mode = "verification" /\ resume_from_link = progress_file.verification_link
    ELSE /\ mode = "scraping"
         /\ start_page = (IF progress_file.page >= 1 /\ progress_file.page <= MaxPage
                          THEN progress_file.page ELSE 1)
         /\ start_pet_type = (IF progress_file.pet_type = "cat" THEN "cat" ELSE "dog")

\* A checkpoint with a page beyond the last one and category cat was loaded
\* as (scraping, 1, cat).
C16_Witness ==
  /\ pc = "while"
  /\ progress_file.state = "ok" /\ progress_file.mode = "scraping"
  /\ progress_file.page = MaxPage + 1 /\ progress_file.pet_type = "cat"
  /\ Loaded = <<"scraping", 1, "cat">>

\* C17 - Checkpoint crash consistency: when the process crashes, also in the
\* middle of save_progress, what load_progress returns for the file left on
\* disk (nothing writes the file while the server is down) is what it
\* returned for the file before that save or what it returns for the
\* document being saved.
C17_CrashConsistency ==
  [][(pc # "down" /\ pc' = "down") =>
       load_progress(progress_file') \in
         {load_progress(progress_file)}
           \cup (IF AboutToSave THEN {load_progress(BeingSaved)} ELSE {})]_vars

\* The step is the os.replace that ends an upsert.
UpsertReplaces ==
  cli.stage = "replace" /\ files'[TmpFile(PET_CSV)] # files[TmpFile(PET_CSV)]

\* C18 - Upsert frame: an upsert of key k leaves every row with another key
\* as it was and where it was; a row that had key k is still at its position,
\* and when no row had key k one row is added after all the others.
C18_UpsertFrame ==
  [][UpsertReplaces =>
       LET before == files[PET_CSV].rows
           after == files'[PET_CSV].rows
           k == PetLinkOf(cli.data)
       IN /\ Len(after) = Len(before) + (IF k \in RowLinks(before) THEN 0 ELSE 1)
          /\ \A i \in 1..Len(before) :
               IF before[i].link = k THEN after[i].link = k ELSE after[i] = before[i]
          /\ k \notin RowLinks(before) => after[Len(after)].link = k]_vars

\* An upsert of the key of the first of two stored rows has changed that row
\* in place; the second row is one of the rows stored before.
C18_Witness ==
  /\ cli.stage = "idle" /\ last_merge = "update"
  /\ Len(files[PET_CSV].rows) = 2
  /\ last_upsert[files[PET_CSV].rows[1].link] # NoData
  /\ last_upsert[files[PET_CSV].rows[2].link] = NoData
  /\ files[PET_CSV].rows[2] = StoredRow(files[PET_CSV].rows[2].link, TRUE)

\* The cell expected for a value of the payload: True or False for a bool,
\* nothing for None, the text otherwise, with the line breaks of the free
\* text written as the two characters \n.
ExpectedCell(col, val) ==
  IF val.kind = "bool" THEN (IF val.b THEN <<"True">> ELSE <<"False">>)
  ELSE IF val.kind = "none" THEN <<>>
  ELSE ExpectedText(col, val.s)

\* C19 - Upsert field merge: when an upsert updates a stored row, every
\* column the payload lacks keeps the stored value and every column the
\* payload has, also with an empty value, holds the payload's value.
C19_FieldMerge ==
  [][UpsertReplaces =>
       LET before == files[PET_CSV].rows
           after == files'[PET_CSV].rows
       IN \A i \in 1..Len(before) :
            before[i].link = PetLinkOf(cli.data) =>
              /\ i <= Len(after)
              /\ \A col \in FieldSet \ {"link"} :
                   after[i][col] = IF col \in DOMAIN cli.data
                                   THEN ExpectedCell(col, cli.data[col])
                                   ELSE before[i][col]]_vars

\* An upsert without a name and with an empty free text has updated a row
\* that was stored with every column filled: the stored name is still there
\* and the free text is now empty.
C19_Witness ==
  /\ cli.stage = "idle" /\ last_merge = "update"
  /\ \E i \in 1..Len(files[PET_CSV].rows) :
       LET r == files[PET_CSV].rows[i]
           d == last_upsert[r.link]
       IN /\ d # NoData
          /\ "name" \notin DOMAIN d
          /\ "about_me" \in DOMAIN d /\ d["about_me"] = PyStr(<<>>)
          /\ r.name = <<"y">> /\ r.about_me = <<>>

\* C20 - Records are removed only by verification: no step takes a key out
\* of pets.csv except the os.replace at the end of a verification pass.
C20_RemovedOnlyByVerification ==
  [][ReadLinks(files) \subseteq ReadLinks(files') \/ pc = "v_replace"]_vars

\* A harvest pass has scanned a page and saved its checkpoint while the
\* store, filled by MaxRows upserts, still holds every key.
C20_Witness ==
  /\ pc = "for_type" /\ ckpt_by = "scan"
  /\ Cardinality(ReadLinks(files)) = MaxRows
  /\ \A k \in ReadLinks(files) : last_upsert[k] # NoData

\* The complete table pets.csv held before the write in progress began, and
\* the complete table that write is putting in its place.
TableBefore == IF rewrite_base.active THEN rewrite_base.table ELSE files[PET_CSV]
TableAfter ==
  IF cli.stage \in {"write", "replace"} THEN Table(cli.rows)
  ELSE IF pc \in {"v_write", "v_replace"} THEN Table(all_rows)
  ELSE TableBefore

\* C21 - Concurrent readers: what GET /pets or GET /pets.csv reads from
\* pets.csv while an upsert or the verification rewrite is in progress is
\* the complete table from before the write or the complete table the write
\* puts in its place, never an incomplete one.
C21_ConcurrentReaders ==
  [][(export.stage = "idle" /\ export'.stage = "open") =>
       /\ ~export'.table.torn
       /\ export'.table \in {TableBefore, TableAfter}]_vars

\* An export has opened pets.csv while the rewritten table, which differs,
\* waits in the temp file for os.replace: it reads the table from before.
C21_Witness ==
  /\ export.stage = "open"
  /\ pc = "v_replace"
  /\ files[TmpFile(PET_CSV)] # files[PET_CSV]
  /\ export.table = files[PET_CSV]
  /\ Len(export.table.rows) = MaxRows

\* C22 - Authorization: a request to /status, /start, /stop, /pets or
\* /pets.csv that carries no key, or a key other than the stored one, is
\* answered with an authorization failure.
C22_Authorization ==
  (last_reply # "" /\ last_key # SCRAPING_KEY /\ last_auth.header # SCRAPING_KEY)
    => last_reply = "unauthorized"

\* C23 - Rate computation: the answer to GET /status carries, besides the
\* running flag, the current position and the three totals, a value for the
\* recent throughput (the fetch completions of the last 15 minutes,
\* divided by 15).
C23_RateReported ==
  last_reply = "status" =>
    server_status \ {"running", "current_page", "current_pet_type", "total_pets_scraped",
                     "total_pets_verified", "total_pets_removed"} # {}

\* C24 - Save before validate: whenever verify_link is about to be called
\* for the row with key K, scraping_progress.json holds (verification, K).
C24_SaveBeforeValidate ==
  pc = "v_check" =>
    /\ progress_file.state = "ok" /\ progress_file.mode = "verification"
    /\ progress_file.verification_link = vsnap[vi].link

\* The validator is about to be called for the second row of a pass that
\* began at the first row, with the second row's key in the checkpoint.
C24_Witness ==
  /\ pc = "v_check" /\ vi = 2 /\ Len(verdicts) = 1
  /\ progress_file.verification_link = vsnap[2].link
  /\ vsnap[1].link # vsnap[2].link

\* The index in vsnap of the row at which the pass started to verify:
\* the first row without a resume key, past the last row when the resume
\* key is not in the table.
ResumeIndex ==
  IF resume_from_link = NoLink THEN 1
  ELSE IF resume_from_link \in RowLinks(vsnap) THEN RowIndex(vsnap, resume_from_link)
  ELSE Len(vsnap) + 1

\* C25 - Verification rewrite result: when a verification pass has
\* completed, pets.csv holds the rows that preceded the resume key followed
\* by the rows from the resume key on that verify_link found valid, all as
\* they were and in their order, and the dedup cache holds exactly the keys
\* of that table.
C25_RewriteResult ==
  (pc = "after_verify" /\ files[PET_CSV].exists) =>
    /\ Len(verdicts) = Len(vsnap) - ResumeIndex + 1
    /\ files[PET_CSV].rows =
         SelectSeq(vsnap, LAMBDA r :
                     LET i == RowIndex(vsnap, r.link)
                     IN i < ResumeIndex \/ verdicts[i - ResumeIndex + 1].kept)
    /\ ~files[PET_CSV].torn
    /\ cache.valid /\ cache.links = ReadLinks(files)

\* A pass resumed at the second of two stored rows kept the first row
\* unexamined and removed the row at the resume key.
C25_Witness ==
  /\ pc = "after_verify"
  /\ Len(vsnap) = 2 /\ resume_from_link = vsnap[2].link
  /\ Len(verdicts) = 1 /\ ~verdicts[1].kept
  /\ files[PET_CSV].rows = <<vsnap[1]>>
  /\ cache.links = {vsnap[1].link}

\* C26 - Verification failure keeps the checkpoint: when verify_all_pets
\* has raised, pets.csv is as it was when the pass began, and handling the
\* error leaves both pets.csv and the checkpoint (verification, last key
\* saved) as they are.
C26_FailureKeepsCheckpoint ==
  [][pc = "verify_failed" =>
       /\ rewrite_base.active => files[PET_CSV] = rewrite_base.table
       /\ files'[PET_CSV] = files[PET_CSV]
       /\ progress_file' = progress_file]_vars

\* C27 - Validator transport failure: a row for which the validator call
\* raised instead of reporting a failed-field count is kept by the pass.
C27_TransportFailureKeeps ==
  (pc \in {"v_next", "v_write", "v_replace", "after_verify"}
     /\ last_outcome.set /\ last_outcome.raised) =>
    verdicts[Len(verdicts)].kept

\* C28 - Page-lister retry: within one scan the page lister is called at
\* most 3 times, again only after a call that failed; when the third call
\* has failed, or a call returns no link, the scan is over with nothing
\* scraped and pets.csv as it was; the checkpoint of that (page, category)
\* is saved all the same and the category loop goes on.
C28_ListerRetry ==
  [][/\ pc = "lister" => attempt < 3
     /\ (pc = "lister" /\ pc' = "lister") => attempt' \in {attempt, attempt + 1}
     /\ (pc # "lister" /\ pc' = "lister") => (pc = "for_type" /\ attempt' = 0)
     /\ (pc = "lister" /\ pc' = "save_scan") =>
          /\ attempt' \in {0, 3}
          /\ files' = files /\ new_pets_count' = 0 /\ total_pets_scraped' = total_pets_scraped
     /\ (pc = "save_scan" /\ pc' \notin {"save_scan", "down"}) =>
          /\ progress_file' = [state |-> "ok", mode |-> "scraping", page |-> page,
                               pet_type |-> pet_type, verification_link |-> NoLink]
          /\ pc' = "for_type" /\ page' = page /\ types' = types]_vars

\* Three calls of the page lister have failed in the scan of the last
\* category of page 1, with a record in the store.
C28_Witness ==
  /\ pc = "save_scan" /\ attempt = 3
  /\ page = 1 /\ pet_type = "cat"
  /\ Len(files[PET_CSV].rows) > 0

\* C29 - Per-item failure isolation: when the fetch of a candidate that is
\* not in the dedup index fails (and the process lives on), pets.csv and the dedup index stay as they
\* were, total_pets_scraped is not incremented, and the item loop goes on
\* with the rest of the list; when the page lister returns a list, a key
\* that is neither in the store nor in the dedup index is not in the index
\* the item loop starts with, so it is fetched again.
C29_ItemFailureIsolated ==
  [][/\ ( /\ pc = "items" /\ pc' # "down" /\ links # <<>> /\ links' = Tail(links)
          /\ Head(links) \notin cache.links
          /\ new_pets_count' = new_pets_count )
        => /\ files' = files
           /\ cache' = cache
           /\ total_pets_scraped' = total_pets_scraped
           /\ pc' = "items"
     /\ (pc = "lister" /\ pc' = "items")
        => \A i \in 1..Len(links') :
             (links'[i] \notin cache.links /\ links'[i] \notin ReadLinks(files))
               => links'[i] \notin cache'.links]_vars

\* A scan of two unknown candidates is over: both fetches failed, nothing
\* was counted and the dedup index holds neither key.
C29_Witness ==
  /\ pc = "save_scan" /\ expected_new = 2 /\ new_pets_count = 0
  /\ cache.valid /\ cache.links \cap Links = {}

NextPos(a) == IF a[2] = "dog" THEN <<a[1], "cat">> ELSE <<a[1] + 1, "dog">>

\* C32 - Harvest scan order: the first scan of a harvest pass is the one of
\* the resume position, (1, "dog") without a checkpoint; every later scan is
\* the one of the next (page, pet_type), "dog" before "cat" and then the
\* next page; and a pass that ends without a stop request has scanned the
\* last category of the last page.
C32_ScanOrder ==
  [][/\ (pc = "for_type" /\ pc' = "lister") =>
          <<page', pet_type'>> =
             IF last_scan # NoPos THEN NextPos(last_scan)
             ELSE IF pass_from.pos # NoPos THEN pass_from.pos
             ELSE <<1, "dog">>
     /\ (pc = "for_page" /\ pc' = "verify_begin" /\ running) =>
          last_scan = <<MaxPage, "cat">>]_vars

\* A pass resumed at (1, "cat") has scanned up to the last category of the
\* last page without being stopped, and the page loop is over.
C32_Witness ==
  /\ pc = "for_page" /\ page > MaxPage /\ running
  /\ pass_from.pos = <<1, "cat">>
  /\ first_call = <<1, "cat">>
  /\ last_scan = <<MaxPage, "cat">>

\* C33 - Harvest pass termination: a harvest pass that has begun, from any
\* scraping checkpoint or none, reaches the call of verify_all_pets, whatever
\* the page lister and the item fetcher return or raise.
C33_HarvestTerminates == (pc \in HarvestPcs) ~> (pc = "verify_begin")

\* A pass in which no call of the page lister returned a link has scanned
\* the last category of the last page and reached the call of
\* verify_all_pets with the running flag set.
C33_Witness ==
  /\ pc = "verify_begin" /\ running /\ harvest_done
  /\ progress_file = ProgressDoc(MaxPage, "cat", "scraping", NoLink)
  /\ ckpt_by = "scan"
  /\ cache = NoCache

\* C34 - Dedup index time-to-live: a call of get_existing_links leaves as the
\* index the set of keys pets.csv held when there was no index, when
\* force_refresh is set or when the index was 300 seconds old or older, and
\* the index it found otherwise.
C34_TimeToLive ==
  lookup.called =>
    cache = IF ~lookup.before.valid \/ lookup.force \/ lookup.age >= 300
            THEN [valid |-> TRUE, links |-> lookup.keys]
            ELSE lookup.before

\* An unforced call found an index of exactly 300 seconds that lacked a key
\* of pets.csv, and rebuilt it.
C34_Witness ==
  /\ lookup.called /\ ~lookup.force /\ lookup.age = 300
  /\ lookup.before.valid /\ lookup.before.links # lookup.keys
  /\ cache.links = lookup.keys

\* The answers of GET /pets and GET /pets.csv.
ExportReplies == {"unauthorized", "no data", "reading", "partial", "pets"}

\* C35 - Token channels: a request to /pets or /pets.csv is authorized
\* exactly when the key file can be read and the key parameter or the
\* X-API-Key header carries what it holds, whatever the other of the two
\* carries.
C35_TokenChannels ==
  last_reply \in ExportReplies =>
    ( last_reply # "unauthorized"
      <=> /\ last_auth.stored # ""
          /\ last_key = last_auth.stored \/ last_auth.header = last_auth.stored )

\* The position a scraping checkpoint names, NoPos for anything else.
CkptPos(doc) ==
  IF doc.state = "ok" /\ doc.mode = "scraping" THEN <<doc.page, doc.pet_type>> ELSE NoPos

\* C36 - Checkpoint never runs ahead: the save that follows a scan writes
\* the (page, pet_type) of the scan that has just finished; it comes after
\* the checkpoint it replaces, or equals it when the scan was the first of
\* the pass; and no step replaces a scraping checkpoint by one of an earlier
\* position.
C36_CheckpointNeverAhead ==
  [][/\ (pc = "save_scan" /\ pc' = "for_type") =>
          /\ CkptPos(progress_file') = last_scan
          /\ last_scan = <<page, pet_type>>
          /\ CkptPos(progress_file) # NoPos =>
               IF last_scan = first_call
               THEN ~PosBefore(last_scan, CkptPos(progress_file))
               ELSE PosBefore(CkptPos(progress_file), last_scan)
     /\ (pc \in HarvestPcs /\ progress_file'.state = "ok" /\ progress_file' # progress_file)
          => pc = "save_scan"
     /\ (CkptPos(progress_file) # NoPos /\ CkptPos(progress_file') # NoPos)
          => ~PosBefore(CkptPos(progress_file'), CkptPos(progress_file))]_vars

\* In a pass resumed at (1, "cat") the scan of (2, "dog") has finished and
\* its checkpoint has replaced the one of (1, "cat").
C36_Witness ==
  /\ pc = "for_type" /\ ckpt_by = "scan"
  /\ pass_from.pos = <<1, "cat">> /\ first_call = <<1, "cat">>
  /\ last_scan = <<2, "dog">>
  /\ CkptPos(progress_file) = <<2, "dog">>

\* C37 - No false positives in the dedup index: when the item loop of a scan
\* runs, the index it got from get_existing_links holds only keys of
\* pets.csv, so a candidate that is not in pets.csv is not skipped.
C37_NoFalsePositives ==
  pc = "items" => (cache.valid /\ cache.links \subseteq ReadLinks(files))

\* The item loop is about to handle a candidate that is not in pets.csv,
\* with an index that holds the one key pets.csv has kept.
C37_Witness ==
  /\ pc = "items" /\ links # <<>>
  /\ Head(links) \notin ReadLinks(files)
  /\ cache.links # {} /\ cache.links = ReadLinks(files)
  /\ Head(links) \notin cache.links

\* C38 - Resume key missing from the store: when verify_all_pets has
\* returned from a call whose resume link was the key of no row of pets.csv,
\* verify_link was called for no row, removed_count is 0, pets.csv holds the
\* rows it held in their order, and the checkpoint is still the one the
\* call was resumed from.
C38_ResumeKeyMissing ==
  (pc = "after_verify" /\ resume_from_link # NoLink
     /\ resume_from_link \notin RowLinks(vsnap)) =>
    /\ verdicts = <<>> /\ ~last_outcome.set
    /\ removed_count = 0
    /\ files[PET_CSV].rows = vsnap /\ ~files[PET_CSV].torn
    /\ progress_file = ProgressDoc(0, "", "verification", resume_from_link)

\* A pass resumed at a key that an earlier pass had removed is over, with
\* the row of another key in pets.csv.
C38_Witness ==
  /\ pc = "after_verify" /\ resume_from_link # NoLink
  /\ resume_from_link \notin RowLinks(vsnap)
  /\ vsnap # <<>> /\ files[PET_CSV].exists
====
